---- MODULE Spec2Model ----
(***************************************************************************)
(* Model of the two entry points of claude-code-semantic-memory:          *)
(*   scripts/extract-from-transcript.py  (the extractor)                  *)
(*   scripts/import-learnings.py         (the bulk importer)              *)
(* One run of one script is one behaviour.  Every blocking network call   *)
(* is one step whose outcome is chosen nondeterministically; the requests *)
(* issued are logged in `net`, the two output streams in `stdout` and     *)
(* `stderr`.                                                               *)
(***************************************************************************)
EXTENDS Integers, Sequences, FiniteSets, TLC

(* ---------------------------------------------------------------------- *)
(* Bounds of the model                                                     *)
(* ---------------------------------------------------------------------- *)
\* longest array a provider decodes
MaxLearnings == 2
\* longest input file of the importer, in lines
MaxLines == 2
\* the truncation threshold is 2 * TruncScale characters (100000 = 2 * 50000)
TruncScale == 2
\* longest prose before and after a model's answer, in tokens
MaxProse == 2

(* ---------------------------------------------------------------------- *)
(* Python / JSON values                                                    *)
(* ---------------------------------------------------------------------- *)
\* Python's None as the value of a dict entry (JSON null) or of dict.get
None == "<None>"

\* A decoded JSON value.  A dict is a function from its keys to its values.
JNull == [kind |-> "null"]
JNum(n) == [kind |-> "number", num |-> n]
JStr(ws) == [kind |-> "string", str |-> ws]
JObj(d) == [kind |-> "object", obj |-> d]
JArr(s) == [kind |-> "array", items |-> s]

\* dict.get(key): the value, or None when the key is absent
Get(d, key) == IF key \in DOMAIN d THEN d[key] ELSE None

\* Python truth value of what dict.get returns for the fields of the model
\* (None and the empty string are false; every other string is true)
Truthy(v) == v # None /\ v # ""

\* Python truth value of a decoded JSON value (`not learnings`)
JTruthy(v) ==
    CASE v.kind = "null" -> FALSE
      [] v.kind = "number" -> v.num # 0
      [] v.kind = "string" -> Len(v.str) > 0
      [] v.kind = "object" -> DOMAIN v.obj # {}
      [] v.kind = "array" -> Len(v.items) > 0

\* len(v) is defined for strings, dicts and lists; it raises TypeError otherwise
HasLen(v) == v.kind \in {"string", "object", "array"}
PyLen(v) ==
    CASE v.kind = "string" -> Len(v.str)
      [] v.kind = "object" -> Cardinality(DOMAIN v.obj)
      [] v.kind = "array" -> Len(v.items)

\* `for x in v`: a list yields its items, a dict its keys, a string its
\* characters (the last two as JSON strings)
RECURSIVE SetToSeq(_)
SetToSeq(S) == IF S = {} THEN <<>>
               ELSE LET x == CHOOSE y \in S : TRUE
                    IN <<x>> \o SetToSeq(S \ {x})
Iterate(v) ==
    CASE v.kind = "array" -> v.items
      [] v.kind = "object" -> [k \in 1..Cardinality(DOMAIN v.obj) |->
                                  JStr(<<SetToSeq(DOMAIN v.obj)[k]>>)]
      [] v.kind = "string" -> [k \in 1..Len(v.str) |-> JStr(<<v.str[k]>>)]

(* ---------------------------------------------------------------------- *)
(* Inputs                                                                  *)
(* ---------------------------------------------------------------------- *)
\* the six-value taxonomy of EXTRACTION_PROMPT
Taxonomy == {"WORKING_SOLUTION", "GOTCHA", "PATTERN", "DECISION", "FAILURE", "PREFERENCE"}

\* candidates a model may put in its array (confidence in hundredths)
CandGood == JObj([type |-> "GOTCHA", content |-> "x", confidence |-> 90])
CandNoType == JObj([content |-> "y"])
CandEmptyContent == JObj([type |-> "PATTERN", content |-> ""])
CandNullType == JObj([type |-> None, content |-> "z"])
CandOffTaxonomy == JObj([type |-> "BOGUS", content |-> "w", confidence |-> 250])
CandOwnSource == JObj([type |-> "DECISION", content |-> "v", session_source |-> "model"])
CandNumber == JNum(5)
Candidates == {CandGood, CandNoType, CandEmptyContent, CandNullType,
               CandOffTaxonomy, CandOwnSource, CandNumber}

RECURSIVE SeqsUpTo(_, _)
SeqsUpTo(S, n) == IF n = 0 THEN {<<>>}
                  ELSE LET shorter == SeqsUpTo(S, n - 1)
                       IN shorter \cup {Append(s, x) : s \in {t \in shorter : Len(t) = n - 1}, x \in S}

\* what json.loads may return for a provider's response text
DecodedValues == {JArr(s) : s \in SeqsUpTo(Candidates, MaxLearnings)}
                 \cup {JNull, JNum(5), JNum(0), JObj([a |-> "b"])}

\* sys.argv of the extractor: the script name, then the arguments
TranscriptPath == "sessions/s1/transcript.md"
OtherTranscriptPath == "sessions/s2/transcript.md"
ExtractorArgvs == {<<"extract">>,
                   <<"extract", TranscriptPath>>,
                   <<"extract", OtherTranscriptPath, "--daemon-url", "http://other:9000">>}

\* Path(p).parent.name
ParentName(p) ==
    CASE p = TranscriptPath -> "s1"
      [] p = OtherTranscriptPath -> "s2"

\* os.environ.get("ANTHROPIC_API_KEY"): unset, set to the empty string, set
ApiKeys == {None, "", "sk-key"}

\* characters of a transcript
Chars == {"a", "b"}

\* the truncation threshold of main (scaled: 100000 in the source) and its half
max_chars == 2 * TruncScale
half == max_chars \div 2
\* "\n\n[... transcript truncated ...]\n\n"
Marker == <<"[...", "truncated", "...]">>

\* the transcript of the pipeline runs, one character above the threshold
\* (SpecTrunc below runs the start of the pipeline over every transcript)
LongTranscript == [k \in 1..(max_chars + 1) |-> IF k <= half THEN "a" ELSE "b"]

\* GET /api/tags: the installed models, each name split at its ":"
InstalledLists == {<<>>,
                   << <<"qwen", "7b">>, <<"phi", "2">> >>,
                   << <<"phi", "2">>, <<"mistral">>, <<"llama3", "8b">> >>}

\* outcome of a request: an exception, or a response
Raised(e) == [raise |-> e]
Status(c) == [raise |-> "none", status_code |-> c]
Body(d) == [raise |-> "none", body |-> d]

\* GET /health
HealthOutcomes == {Status(200), Status(503), Raised("ConnectionError"), Raised("ReadTimeout")}

\* POST /store: the JSON body of the response, or an exception (transport
\* failure, timeout, or a body that is not a JSON object)
StoreOutcomes == {Body([status |-> "stored"]),
                  Body([status |-> "duplicate", similarity |-> 97]),
                  Body([status |-> "error"]),
                  Raised("Timeout")}
\* the importer also reads the similarity of a duplicate, which may be absent
ImporterStoreOutcomes == StoreOutcomes \cup {Body([status |-> "duplicate"])}

(* ---------------------------------------------------------------------- *)
(* State                                                                   *)
(* ---------------------------------------------------------------------- *)
VARIABLES
    prog,         \* which script runs: "extract" or "import"
    argv,         \* sys.argv
    fileExists,   \* whether the path argument names an existing file
    fileText,     \* content of that file (characters, or lines for the importer)
    apiKey,       \* ANTHROPIC_API_KEY
    response,     \* the text a model answers with: what precedes, is and follows its answer
    pc,           \* position of the script
    exit,         \* "running", "exit0", "exit1" or "uncaught" (traceback, status 1)
    DAEMON_URL,   \* module-level collaborator URL
    transcript,   \* main's local `transcript` after truncation
    session_id,   \* main's local `session_id`
    learnings,    \* main's local `learnings` (a decoded JSON value)
    selected,     \* extract_with_ollama's local `selected`
    idx,          \* number of loop iterations completed (learnings or lines)
    stored,       \* store_learnings' local `stored`
    imported,     \* importer counters
    duplicates,
    errors,
    net,          \* requests issued so far, in order, with their outcomes
    stdout,       \* what was written to standard output, in order
    stderr        \* what was written to standard error, in order

vars == <<prog, argv, fileExists, fileText, apiKey, response, pc, exit, DAEMON_URL,
          transcript, session_id, learnings, selected, idx, stored,
          imported, duplicates, errors, net, stdout, stderr>>

inputs == <<prog, argv, fileExists, fileText, apiKey, response>>
counters == <<imported, duplicates, errors>>

(* ---------------------------------------------------------------------- *)
(* Helpers shared by the two scripts                                       *)
(* ---------------------------------------------------------------------- *)
Min(a, b) == IF a < b THEN a ELSE b
Max(a, b) == IF a > b THEN a ELSE b

\* Python slices s[:n] and s[-n:] for n >= 0 (s[-0:] is the whole of s)
SliceTo(s, n) == SubSeq(s, 1, Min(n, Len(s)))
SliceFromEnd(s, n) == IF n = 0 THEN s ELSE SubSeq(s, Max(Len(s) - n, 0) + 1, Len(s))

\* list.index(x) + 1: the first position of x in s
RECURSIVE IndexOf(_, _, _)
IndexOf(s, x, k) == IF s[k] = x THEN k ELSE IndexOf(s, x, k + 1)
Contains(s, x) == \E k \in 1..Len(s) : s[k] = x

\* the two ways a script stops
Exited(code) == /\ pc' = "exited"
                /\ exit' = code
Say(stream, m) == Append(stream, m)
Msg(m) == [msg |-> m]

\* sys.exit raises SystemExit
SystemExit == "SystemExit"

(* ---------------------------------------------------------------------- *)
(* The extractor: extract-from-transcript.py                               *)
(* ---------------------------------------------------------------------- *)
DefaultDaemonUrl == "http://127.0.0.1:8741"

\* a truncation whose tail is t[half:] instead of t[-half:]
TruncateTailFromHalf(t) ==
    IF Len(t) > max_chars
    THEN SliceTo(t, half) \o Marker \o SubSeq(t, half + 1, Len(t))
    ELSE t

\* main, lines 199-203: keep the first and the last half of a long transcript
Truncate(t) ==
    IF Len(t) > max_chars
    THEN SliceTo(t, half) \o Marker \o SliceFromEnd(t, half)
    ELSE t

\* main, lines 190-194: the --daemon-url override
DaemonUrlFromArgs(av, url) ==
    IF Contains(av, "--daemon-url")
    THEN LET k == IndexOf(av, "--daemon-url", 1)
         IN IF k + 1 <= Len(av) THEN av[k + 1] ELSE url
    ELSE url

\* main, lines 180-208: arguments, file, truncation, session id
extract_main ==
    /\ prog = "extract" /\ pc = "main"
    /\ IF Len(argv) < 2
       THEN /\ stderr' = Say(stderr, Msg("Usage"))
            /\ Exited("exit1")
            /\ UNCHANGED <<DAEMON_URL, transcript, session_id>>
       ELSE IF ~fileExists
       THEN /\ stderr' = Say(stderr, Msg("File not found"))
            /\ Exited("exit1")
            /\ UNCHANGED <<DAEMON_URL, transcript, session_id>>
       ELSE /\ DAEMON_URL' = DaemonUrlFromArgs(argv, DAEMON_URL)
            /\ transcript' = Truncate(fileText)
            /\ session_id' = ParentName(argv[2])
            /\ stderr' = Say(stderr, Msg("Extracting learnings"))
            /\ pc' = "anthropic"
            /\ UNCHANGED exit
    /\ UNCHANGED <<inputs, learnings, selected, idx, stored, counters, net, stdout>>

\* extract_with_anthropic, lines 57-59: no request without a credential
HasCredential(key) == Truthy(key)

\* what a provider call may do: raise inside its try block, or decode a value
ProviderOutcomes == {Raised("RequestException"), Raised("JSONDecodeError")}
                    \cup {Body(v) : v \in DecodedValues}

\* the value a provider function returns for an outcome (lines 88-91, 143-146)
ProviderReturn(o) == IF o.raise # "none" THEN JNull ELSE o.body

\* a fallback taken on every false result (`if not learnings`), the empty list included
NeedsFallbackOnFalsy(result) == ~JTruthy(result)

\* main, lines 213-215: the fallback is taken when the first result is None
NeedsFallback(result) == result = JNull

\* main line 211 with extract_with_anthropic, lines 55-91
extract_with_anthropic ==
    /\ prog = "extract" /\ pc = "anthropic"
    /\ IF ~HasCredential(apiKey)
       THEN /\ learnings' = JNull
            /\ stderr' = Say(stderr, Msg("Anthropic API not available, trying Ollama"))
            /\ pc' = "ollama_tags"
            /\ UNCHANGED net
       ELSE \E o \in ProviderOutcomes :
            LET result == ProviderReturn(o)
                err == IF o.raise # "none"
                       THEN Say(stderr, Msg("Anthropic API error")) ELSE stderr
            IN /\ net' = Append(net, [ep |-> "POST anthropic/v1/messages",
                                      prompt |-> transcript, out |-> o])
               /\ learnings' = result
               /\ IF NeedsFallback(result)
                  THEN /\ stderr' = Say(err, Msg("Anthropic API not available, trying Ollama"))
                       /\ pc' = "ollama_tags"
                  ELSE /\ stderr' = err
                       /\ pc' = "check"
    /\ UNCHANGED <<inputs, exit, DAEMON_URL, transcript, session_id, selected,
                   idx, stored, counters, stdout>>

\* extract_with_ollama, line 104
preferred == <<"llama3", "mistral", "mixtral", "codellama", "deepseek-coder">>

\* line 101: m["name"].split(":")[0] for every installed model
available_models(models) == [k \in 1..Len(models) |-> models[k][1]]

\* a selection that falls back to the default model name of the signature
SelectModelOrDefault(available) ==
    LET hits == {k \in 1..Len(preferred) : Contains(available, preferred[k])}
    IN IF hits # {}
       THEN preferred[CHOOSE k \in hits : \A j \in hits : k <= j]
       ELSE IF Len(available) > 0 THEN available[1] ELSE "llama3"

\* a selection that takes the first installed model that is a preferred one
SelectFirstInstalledPreferred(available) ==
    LET hits == {k \in 1..Len(available) : Contains(preferred, available[k])}
    IN IF hits # {}
       THEN available[CHOOSE k \in hits : \A j \in hits : k <= j]
       ELSE IF Len(available) > 0 THEN available[1] ELSE None

\* lines 105-112: the first preferred model that is installed, else the first
\* installed model, else None
SelectModel(available) ==
    LET hits == {k \in 1..Len(preferred) : Contains(available, preferred[k])}
    IN IF hits # {}
       THEN preferred[CHOOSE k \in hits : \A j \in hits : k <= j]
       ELSE IF Len(available) > 0 THEN available[1] ELSE None

\* GET /api/tags: an exception, or the list of installed models
TagsOutcomes == {Raised("ConnectionError")} \cup {Body(m) : m \in InstalledLists}

\* main line 215 with extract_with_ollama, lines 96-118: list and select
extract_with_ollama_tags ==
    /\ prog = "extract" /\ pc = "ollama_tags"
    /\ \E o \in TagsOutcomes :
         /\ net' = Append(net, [ep |-> "GET ollama/api/tags", out |-> o])
         /\ IF o.raise # "none"
            THEN /\ stderr' = Say(stderr, Msg("Ollama error"))
                 /\ learnings' = JNull
                 /\ pc' = "check"
                 /\ UNCHANGED selected
            ELSE LET choice == SelectModel(available_models(o.body))
                 IN /\ selected' = choice
                    /\ IF ~Truthy(choice)
                       THEN /\ stderr' = Say(stderr, Msg("No Ollama models available"))
                            /\ learnings' = JNull
                            /\ pc' = "check"
                       ELSE /\ stderr' = Say(stderr, Msg("Using Ollama model"))
                            /\ pc' = "ollama_generate"
                            /\ UNCHANGED learnings
    /\ UNCHANGED <<inputs, exit, DAEMON_URL, transcript, session_id,
                   idx, stored, counters, stdout>>

\* extract_with_ollama, lines 120-146: generate and decode
extract_with_ollama_generate ==
    /\ prog = "extract" /\ pc = "ollama_generate"
    /\ \E o \in ProviderOutcomes :
         /\ net' = Append(net, [ep |-> "POST ollama/api/generate", model |-> selected,
                                prompt |-> transcript, out |-> o])
         /\ learnings' = ProviderReturn(o)
         /\ stderr' = IF o.raise # "none" THEN Say(stderr, Msg("Ollama error")) ELSE stderr
         /\ pc' = "check"
    /\ UNCHANGED <<inputs, exit, DAEMON_URL, transcript, session_id, selected,
                   idx, stored, counters, stdout>>

\* an empty result ending the run as a failure
ExitOfEmptyResultAsFailure == "exit1"

\* main, line 223: sys.exit(0) after "No learnings extracted"
ExitOfEmptyResult == "exit0"

\* main, lines 217-225: what the result of the providers leads to
extract_main_check ==
    /\ prog = "extract" /\ pc = "check"
    /\ IF learnings = JNull
       THEN /\ stderr' = Say(stderr, Msg("No LLM available for extraction"))
            /\ Exited("exit1")
       ELSE IF ~JTruthy(learnings)
       THEN /\ stderr' = Say(stderr, Msg("No learnings extracted"))
            /\ Exited(ExitOfEmptyResult)
       ELSE IF ~HasLen(learnings)
       THEN /\ stderr' = Say(stderr, Msg("Traceback: TypeError"))
            /\ Exited("uncaught")
       ELSE /\ stderr' = Say(stderr, [msg |-> "Extracted", total |-> PyLen(learnings)])
            /\ pc' = "health"
            /\ UNCHANGED exit
    /\ UNCHANGED <<inputs, DAEMON_URL, transcript, session_id, learnings, selected,
                   idx, stored, counters, net, stdout>>

\* main, line 230: the probe succeeded
Healthy(o) == o.raise = "none" /\ o.status_code = 200

\* main, line 235: a bare `except:` catches every exception, SystemExit included
BareExceptCatches(e) == TRUE

\* json.dumps(learnings, indent=2) printed to standard output
Dump(v) == [json |-> v]

\* main, lines 227-238: the health probe and the fallback dump
extract_main_health ==
    /\ prog = "extract" /\ pc = "health"
    /\ \E o \in HealthOutcomes :
         LET \* the try block, lines 229-234
             unhealthy == o.raise = "none" /\ ~Healthy(o)
             raisedInTry == IF o.raise # "none" THEN o.raise
                            ELSE IF unhealthy THEN SystemExit ELSE "none"
             errTry == IF unhealthy THEN Say(stderr, Msg("Daemon not healthy")) ELSE stderr
             outTry == IF unhealthy THEN Say(stdout, Dump(learnings)) ELSE stdout
             \* the handler, lines 235-238
             caught == raisedInTry # "none" /\ BareExceptCatches(raisedInTry)
         IN /\ net' = Append(net, [ep |-> "GET /health", url |-> DAEMON_URL, out |-> o])
            /\ IF caught
               THEN /\ stderr' = Say(errTry, Msg("Daemon not reachable"))
                    /\ stdout' = Say(outTry, Dump(learnings))
                    /\ Exited("exit1")
               ELSE IF raisedInTry # "none"
               THEN /\ stderr' = errTry
                    /\ stdout' = outTry
                    /\ Exited(IF raisedInTry = SystemExit THEN "exit1" ELSE "uncaught")
               ELSE /\ stderr' = errTry
                    /\ stdout' = outTry
                    /\ pc' = "store"
                    /\ UNCHANGED exit
    /\ UNCHANGED <<inputs, DAEMON_URL, transcript, session_id, learnings, selected,
                   idx, stored, counters>>

\* a validator that also enforces the taxonomy
IsValidInTaxonomy(d) ==
    Truthy(Get(d, "type")) /\ Truthy(Get(d, "content")) /\ Get(d, "type") \in Taxonomy

\* store_learnings, line 154: the validator
IsValid(d) == Truthy(Get(d, "type")) /\ Truthy(Get(d, "content"))

\* a session_source set only where the candidate has none (dict.setdefault)
WithDefaultSessionSource(d, sid) ==
    [k \in DOMAIN d \cup {"session_source"} |->
        IF k \in DOMAIN d THEN d[k] ELSE sid]

\* store_learnings, line 158: learning["session_source"] = session_id
WithSessionSource(d, sid) ==
    [k \in DOMAIN d \cup {"session_source"} |-> IF k = "session_source" THEN sid ELSE d[k]]

\* lines 166-168: resp.json() gave a dict whose status is "stored"
IsStored(o) == o.raise = "none" /\ Get(o.body, "status") = "stored"
IsDuplicate(o) == o.raise = "none" /\ Get(o.body, "status") = "duplicate"

\* store_learnings, lines 168-174: the message one submission writes
StoreMessage(o) ==
    IF o.raise # "none" THEN <<Msg("Failed to store")>>
    ELSE IF IsStored(o) THEN <<Msg("stored")>>
    ELSE IF IsDuplicate(o) THEN <<Msg("Duplicate")>>
    ELSE <<>>

\* a count of every submission the collaborator answered, duplicates included
StoredAfterAnyAnswer(n, o) == IF IsStored(o) \/ IsDuplicate(o) THEN n + 1 ELSE n

\* store_learnings, line 169
StoredAfter(n, o) == IF IsStored(o) THEN n + 1 ELSE n

\* a loop that gives up at the first submission that raises
IndexAfterStopOnFailure(i, o, n) == IF o.raise # "none" THEN n ELSE i + 1

\* store_learnings, lines 153 and 173-174: the handler swallows the exception
\* and the loop goes on to the next learning, whatever the outcome
IndexAfter(i, o, n) == i + 1

\* store_learnings, lines 153-174: one iteration of the loop
store_learnings ==
    /\ prog = "extract" /\ pc = "store"
    /\ idx < Len(Iterate(learnings))
    /\ LET learning == Iterate(learnings)[idx + 1]
       IN IF learning.kind # "object"
          THEN \* learning.get raises AttributeError, which nothing catches
               /\ stderr' = Say(stderr, Msg("Traceback: AttributeError"))
               /\ Exited("uncaught")
               /\ UNCHANGED <<learnings, idx, stored, net>>
          ELSE IF ~IsValid(learning.obj)
          THEN /\ idx' = idx + 1
               /\ UNCHANGED <<pc, exit, learnings, stored, net, stderr>>
          ELSE \E o \in StoreOutcomes :
               LET sent == WithSessionSource(learning.obj, session_id)
               IN /\ learnings' = JArr([learnings.items EXCEPT ![idx + 1] = JObj(sent)])
                  /\ net' = Append(net, [ep |-> "POST /store", url |-> DAEMON_URL,
                                         json |-> JObj(sent), out |-> o])
                  /\ stored' = StoredAfter(stored, o)
                  /\ stderr' = stderr \o StoreMessage(o)
                  /\ idx' = IndexAfter(idx, o, Len(learnings.items))
                  /\ UNCHANGED <<pc, exit>>
    /\ UNCHANGED <<inputs, DAEMON_URL, transcript, session_id, selected, counters, stdout>>

\* a total that counts the candidates that pass the validator only
ReportTotalOfValid(ls) ==
    LET Passes(v) == IsValid(v.obj) IN Len(SelectSeq(Iterate(ls), Passes))

\* main, line 241: the total of the report is len(learnings)
ReportTotal(ls) == PyLen(ls)

\* main, lines 240-241: store_learnings returned; the final report
extract_main_report ==
    /\ prog = "extract" /\ pc = "store"
    /\ idx = Len(Iterate(learnings))
    /\ stderr' = Say(stderr, [msg |-> "Stored", stored |-> stored,
                              total |-> ReportTotal(learnings)])
    /\ Exited("exit0")
    /\ UNCHANGED <<inputs, DAEMON_URL, transcript, session_id, learnings, selected,
                   idx, stored, counters, net, stdout>>

(* ---------------------------------------------------------------------- *)
(* The bulk importer: import-learnings.py                                  *)
(* ---------------------------------------------------------------------- *)
ImporterUrl == "http://localhost:8741"
ImporterArgvs == {<<"import">>, <<"import", "learnings.jsonl">>}

\* the lines of an input file: blank, not JSON, or the JSON value they hold
BlankLine == [kind |-> "blank"]
InvalidLine == [kind |-> "invalid"]
JsonLine(v) == [kind |-> "json", value |-> v]
LineValues == {CandGood,
               JObj([type |-> "GOTCHA"]),
               JObj([type |-> "", content |-> "x"]),
               JObj([type |-> "FAILURE", content |-> None]),
               JNum(5),
               JStr(<<"abc">>),
               JStr(<<"type", "content">>)}
Lines == {BlankLine, InvalidLine} \cup {JsonLine(v) : v \in LineValues}

\* `key in v` raises TypeError for a number, a boolean or null
InRaises(v) == v.kind \in {"number", "null"}
\* `key in v`: a key of a dict, a substring of a string, an item of a list
HasKey(v, key) ==
    CASE v.kind = "object" -> key \in DOMAIN v.obj
      [] v.kind = "string" -> Contains(v.str, key)
      [] v.kind = "array" -> Contains(v.items, JStr(<<key>>))

\* line 55: the importer's validator
MissingRequired(v) == ~HasKey(v, "type") \/ ~HasKey(v, "content")

\* lines 71 and 74: learning['type'] and learning['content'][:n] raise unless
\* learning is a dict whose content can be sliced
PrintRaises(v) == v.kind # "object" \/ v.obj["content"] = None

\* line 32: the handler of the health probe catches ConnectionError only
CatchesConnectionError(e) == e = "ConnectionError"

\* main, lines 16-24
import_main ==
    /\ prog = "import" /\ pc = "main"
    /\ IF Len(argv) < 2
       THEN /\ stdout' = Say(stdout, Msg("Usage"))
            /\ Exited("exit1")
       ELSE IF ~fileExists
       THEN /\ stdout' = Say(stdout, Msg("File not found"))
            /\ Exited("exit1")
       ELSE /\ pc' = "health"
            /\ UNCHANGED <<exit, stdout>>
    /\ UNCHANGED <<inputs, DAEMON_URL, transcript, session_id, learnings, selected,
                   idx, stored, counters, net, stderr>>

\* main, lines 26-34: the health probe
import_main_health ==
    /\ prog = "import" /\ pc = "health"
    /\ \E o \in HealthOutcomes :
         /\ net' = Append(net, [ep |-> "GET /health", url |-> DAEMON_URL, out |-> o])
         /\ IF o.raise # "none"
            THEN IF CatchesConnectionError(o.raise)
                 THEN /\ stdout' = Say(stdout, Msg("Cannot connect to memory daemon. Start it with"))
                      /\ stderr' = stderr
                      /\ Exited("exit1")
                 ELSE /\ stderr' = Say(stderr, Msg("Traceback: " \o o.raise))
                      /\ stdout' = stdout
                      /\ Exited("uncaught")
            ELSE IF o.status_code # 200
            THEN /\ stdout' = Say(stdout, Msg("Memory daemon not healthy. Start it with"))
                 /\ stderr' = stderr
                 /\ Exited("exit1")
            ELSE /\ pc' = "lines"
                 /\ UNCHANGED <<exit, stdout, stderr>>
    /\ UNCHANGED <<inputs, DAEMON_URL, transcript, session_id, learnings, selected,
                   idx, stored, counters>>

\* lines 67-81: what one /store outcome does to the counters; a print that
\* raises after its counter was incremented is caught at line 79
ImportedAfter(n, o) == IF IsStored(o) THEN n + 1 ELSE n
DuplicatesAfter(n, o) == IF IsDuplicate(o) THEN n + 1 ELSE n
ErrorsAfter(n, o, v) ==
    IF o.raise # "none" THEN n + 1
    ELSE IF IsStored(o) THEN (IF PrintRaises(v) THEN n + 1 ELSE n)
    ELSE IF IsDuplicate(o)
         THEN (IF "similarity" \notin DOMAIN o.body \/ PrintRaises(v) THEN n + 1 ELSE n)
    ELSE n + 1

\* lines 71-80: the message one /store outcome prints
ImportMessage(o, v) ==
    IF o.raise # "none" THEN "Request failed"
    ELSE IF IsStored(o) THEN (IF PrintRaises(v) THEN "Request failed" ELSE "stored")
    ELSE IF IsDuplicate(o)
         THEN (IF "similarity" \notin DOMAIN o.body \/ PrintRaises(v)
               THEN "Request failed" ELSE "Duplicate")
    ELSE "Unexpected result"

\* main, lines 42-81: one line of the file
import_main_line ==
    /\ prog = "import" /\ pc = "lines"
    /\ idx < Len(fileText)
    /\ LET line == fileText[idx + 1]
           line_num == idx + 1
       IN IF line.kind = "blank"
          THEN /\ idx' = idx + 1
               /\ UNCHANGED <<pc, exit, counters, net, stdout, stderr>>
          ELSE IF line.kind = "invalid"
          THEN /\ stdout' = Say(stdout, [msg |-> "Invalid JSON", line |-> line_num])
               /\ errors' = errors + 1
               /\ idx' = idx + 1
               /\ UNCHANGED <<pc, exit, imported, duplicates, net, stderr>>
          ELSE IF InRaises(line.value)
          THEN \* line 55 raises TypeError, which nothing catches
               /\ stderr' = Say(stderr, Msg("Traceback: TypeError"))
               /\ Exited("uncaught")
               /\ UNCHANGED <<idx, counters, net, stdout>>
          ELSE IF MissingRequired(line.value)
          THEN /\ stdout' = Say(stdout, [msg |-> "Missing required fields", line |-> line_num])
               /\ errors' = errors + 1
               /\ idx' = idx + 1
               /\ UNCHANGED <<pc, exit, imported, duplicates, net, stderr>>
          ELSE \E o \in ImporterStoreOutcomes :
               /\ net' = Append(net, [ep |-> "POST /store", url |-> DAEMON_URL,
                                      json |-> line.value, out |-> o])
               /\ imported' = ImportedAfter(imported, o)
               /\ duplicates' = DuplicatesAfter(duplicates, o)
               /\ errors' = ErrorsAfter(errors, o, line.value)
               /\ stdout' = Say(stdout, [msg |-> ImportMessage(o, line.value), line |-> line_num])
               /\ idx' = idx + 1
               /\ UNCHANGED <<pc, exit, stderr>>
    /\ UNCHANGED <<inputs, DAEMON_URL, transcript, session_id, learnings, selected, stored>>

\* GET /stats
StatsOutcomes == {Body([total_learnings |-> 3]), Raised("ConnectionError")}

\* main, lines 83-91: the summary, then the statistics of the collaborator
import_main_stats ==
    /\ prog = "import" /\ pc = "lines"
    /\ idx = Len(fileText)
    /\ \E o \in StatsOutcomes :
         LET summary == Say(stdout, [msg |-> "Summary", imported |-> imported,
                                     duplicates |-> duplicates, errors |-> errors])
         IN /\ net' = Append(net, [ep |-> "GET /stats", url |-> DAEMON_URL, out |-> o])
            /\ IF o.raise # "none"
               THEN /\ stdout' = summary
                    /\ stderr' = Say(stderr, Msg("Traceback: " \o o.raise))
                    /\ Exited("uncaught")
               ELSE /\ stdout' = Say(summary, Msg("Total learnings in database"))
                    /\ stderr' = stderr
                    /\ Exited("exit0")
    /\ UNCHANGED <<inputs, DAEMON_URL, transcript, session_id, learnings, selected,
                   idx, stored, counters>>

(* ---------------------------------------------------------------------- *)
(* The response text of a provider and its decoding                        *)
(* ---------------------------------------------------------------------- *)
\* A text is a sequence of tokens: a fence (three backticks), a bracket, a
\* comma, a double quote, white space, a word, a number, the literal null,
\* and the literal of one object that holds no bracket and no backtick.
Fence == "<fence>"
Quote == "\""
Ws == "\n"
ObjectLiteral == "{...}"
ObjectOfLiteral == CandGood

\* str.strip()
PyStrip(t) ==
    LET solid == {k \in 1..Len(t) : t[k] # Ws}
    IN IF solid = {} THEN <<>>
       ELSE SubSeq(t, CHOOSE k \in solid : \A j \in solid : k <= j,
                      CHOOSE k \in solid : \A j \in solid : j <= k)

\* str.startswith(tok)
StartsWith(t, tok) == Len(t) > 0 /\ t[1] = tok

\* str.find(tok) + 1 and str.rfind(tok) + 1: 0 when tok does not occur
Find(t, tok) ==
    LET at == {k \in 1..Len(t) : t[k] = tok}
    IN IF at = {} THEN 0 ELSE CHOOSE k \in at : \A j \in at : k <= j
RFind(t, tok) ==
    LET at == {k \in 1..Len(t) : t[k] = tok}
    IN IF at = {} THEN 0 ELSE CHOOSE k \in at : \A j \in at : j <= k

\* t.split(sep)[1] for a text that holds sep: what lies between the first
\* sep and the next one, or the end
SplitSecond(t, sep) ==
    LET a == Find(t, sep)
        rest == SubSeq(t, a + 1, Len(t))
        b == Find(rest, sep)
    IN IF b = 0 THEN rest ELSE SubSeq(rest, 1, b - 1)

\* json.loads: a recursive-descent reading of the text
NoParse == [ok |-> FALSE, val |-> JNull, next |-> 0]
Parsed(v, n) == [ok |-> TRUE, val |-> v, next |-> n]

RECURSIVE SkipWs(_, _)
SkipWs(t, i) == IF i <= Len(t) /\ t[i] = Ws THEN SkipWs(t, i + 1) ELSE i

RECURSIVE ParseValue(_, _)
RECURSIVE ParseItems(_, _, _)
ParseValue(t, i) ==
    LET j == SkipWs(t, i)
    IN IF j > Len(t) THEN NoParse
       ELSE IF t[j] = "5" THEN Parsed(JNum(5), j + 1)
       ELSE IF t[j] = "null" THEN Parsed(JNull, j + 1)
       ELSE IF t[j] = ObjectLiteral THEN Parsed(ObjectOfLiteral, j + 1)
       ELSE IF t[j] = Quote
       THEN LET close == Find(SubSeq(t, j + 1, Len(t)), Quote)
            IN IF close = 0 THEN NoParse
               ELSE Parsed(JStr(SubSeq(t, j + 1, j + close - 1)), j + close + 1)
       ELSE IF t[j] = "["
       THEN LET k == SkipWs(t, j + 1)
            IN IF k <= Len(t) /\ t[k] = "]" THEN Parsed(JArr(<<>>), k + 1)
               ELSE ParseItems(t, j + 1, <<>>)
       ELSE NoParse
ParseItems(t, i, acc) ==
    LET r == ParseValue(t, i)
        k == SkipWs(t, r.next)
    IN IF ~r.ok \/ k > Len(t) THEN NoParse
       ELSE IF t[k] = "," THEN ParseItems(t, k + 1, Append(acc, r.val))
       ELSE IF t[k] = "]" THEN Parsed(JArr(Append(acc, r.val)), k + 1)
       ELSE NoParse

\* json.loads(content): the decoded value, or JSONDecodeError
JsonLoads(t) ==
    LET r == ParseValue(t, 1)
    IN IF r.ok /\ SkipWs(t, r.next) > Len(t) THEN Body(r.val)
       ELSE Raised("JSONDecodeError")

\* extract_with_anthropic, lines 82-86: the text handed to json.loads
AnthropicContent(text) ==
    LET content == PyStrip(text)
    IN IF StartsWith(content, Fence)
       THEN LET inner == SplitSecond(content, Fence)
            IN IF StartsWith(inner, "json") THEN Tail(inner) ELSE inner
       ELSE content

\* extract_with_anthropic, lines 80-91: what the function returns for a text
AnthropicDecode(text) == ProviderReturn(JsonLoads(AnthropicContent(text)))

\* a scan that cuts at the first bracket only and keeps the rest of the text
OllamaContentFromFirstBracket(text) ==
    LET content == PyStrip(text)
        start == Find(content, "[") - 1
    IN IF start >= 0 THEN SubSeq(content, start + 1, Len(content)) ELSE content

\* extract_with_ollama, lines 135-141: the text handed to json.loads
OllamaContent(text) ==
    LET content == PyStrip(text)
        start == Find(content, "[") - 1
        end == (RFind(content, "]") - 1) + 1
    IN IF start >= 0 /\ end > start
       THEN SubSeq(content, start + 1, end)
       ELSE content

\* extract_with_ollama, lines 135-146: what the function returns for a text
OllamaDecode(text) == ProviderReturn(JsonLoads(OllamaContent(text)))

\* the texts of the arrays a model may answer with
ItemTexts == {<<"5">>, <<ObjectLiteral>>, <<Quote, "w", Quote>>,
              <<Quote, Fence, Quote>>, <<Quote, "]", Quote>>}
RECURSIVE Join(_)
Join(items) ==
    IF Len(items) = 0 THEN <<>>
    ELSE IF Len(items) = 1 THEN items[1]
    ELSE items[1] \o <<",", Ws>> \o Join(Tail(items))
ArrayText(items) == <<"[">> \o Join(items) \o <<"]">>
ArrayTexts == {ArrayText(s) : s \in SeqsUpTo(ItemTexts, MaxLearnings)}

\* the texts that are no array
OtherTexts == {<<"5">>, <<"null">>, <<ObjectLiteral>>, <<"w", Ws, "w">>, <<>>}

\* what a model may put around its answer: prose, or a fenced block
ProseTokens == {"w", "[", "]"}
Proses == SeqsUpTo(ProseTokens, MaxProse)
FenceOpenings == {<<Fence, Ws>>, <<Fence, "json", Ws>>, <<Ws, Fence, "json", Ws>>,
                  <<Fence, "python", Ws>>}
FenceClosings == {<<Ws, Fence>>, <<Ws, Fence, Ws>>}
Responses ==
    [pre : Proses, body : ArrayTexts \cup OtherTexts, post : Proses]
    \cup [pre : FenceOpenings, body : ArrayTexts \cup OtherTexts, post : FenceClosings]
NoResponse == [pre |-> <<>>, body |-> <<>>, post |-> <<>>]
ResponseText(r) == r.pre \o r.body \o r.post

\* extract_with_anthropic, lines 80-91, for the response text at hand
extract_with_anthropic_decode ==
    /\ prog = "extract" /\ pc = "decode"
    /\ learnings' = AnthropicDecode(ResponseText(response))
    /\ stderr' = IF JsonLoads(AnthropicContent(ResponseText(response))).raise # "none"
                 THEN Say(stderr, Msg("Anthropic API error")) ELSE stderr
    /\ pc' = "anthropic_decoded"
    /\ UNCHANGED <<inputs, exit, DAEMON_URL, transcript, session_id, selected,
                   idx, stored, counters, net, stdout>>

\* extract_with_ollama, lines 135-146, for the response text at hand
extract_with_ollama_decode ==
    /\ prog = "extract" /\ pc = "decode"
    /\ learnings' = OllamaDecode(ResponseText(response))
    /\ stderr' = IF JsonLoads(OllamaContent(ResponseText(response))).raise # "none"
                 THEN Say(stderr, Msg("Ollama error")) ELSE stderr
    /\ pc' = "ollama_decoded"
    /\ UNCHANGED <<inputs, exit, DAEMON_URL, transcript, session_id, selected,
                   idx, stored, counters, net, stdout>>

(* ---------------------------------------------------------------------- *)
(* Specification                                                           *)
(* ---------------------------------------------------------------------- *)
Fresh ==
    /\ pc = "main" /\ exit = "running"
    /\ transcript = <<>> /\ session_id = None
    /\ learnings = JNull /\ selected = None
    /\ idx = 0 /\ stored = 0
    /\ imported = 0 /\ duplicates = 0 /\ errors = 0
    /\ net = <<>> /\ stdout = <<>> /\ stderr = <<>>

Init ==
    /\ \/ /\ prog = "extract"
          /\ argv \in ExtractorArgvs
          /\ fileText = LongTranscript
          /\ apiKey \in ApiKeys
          /\ DAEMON_URL = DefaultDaemonUrl
       \/ /\ prog = "import"
          /\ argv \in ImporterArgvs
          /\ fileText \in SeqsUpTo(Lines, MaxLines)
          /\ apiKey = None
          /\ DAEMON_URL = ImporterUrl
    /\ fileExists \in BOOLEAN
    /\ response = NoResponse
    /\ Fresh

Next ==
    \/ extract_main
    \/ extract_with_anthropic
    \/ extract_with_ollama_tags
    \/ extract_with_ollama_generate
    \/ extract_main_check
    \/ extract_main_health
    \/ store_learnings
    \/ extract_main_report
    \/ import_main
    \/ import_main_health
    \/ import_main_line
    \/ import_main_stats

Spec == Init /\ [][Next]_vars

\* The start of the extractor over every transcript of up to max_chars + 2
\* characters: main reads and truncates the file and hands the text to the
\* providers.
Transcripts == SeqsUpTo(Chars, max_chars + 2)

InitTrunc ==
    /\ prog = "extract"
    /\ argv = <<"extract", TranscriptPath>>
    /\ fileExists = TRUE
    /\ fileText \in Transcripts
    /\ apiKey \in {None, "sk-key"}
    /\ DAEMON_URL = DefaultDaemonUrl
    /\ response = NoResponse
    /\ Fresh

NextTrunc ==
    \/ extract_main
    \/ extract_with_anthropic
    \/ extract_with_ollama_tags
    \/ extract_with_ollama_generate

SpecTrunc == InitTrunc /\ [][NextTrunc]_vars

\* The decoding of a provider's response text, over every response: each
\* provider function is applied to the text from the point where the
\* response has arrived.
InitParse ==
    /\ prog = "extract"
    /\ argv = <<"extract", TranscriptPath>>
    /\ fileExists = TRUE
    /\ fileText = <<>>
    /\ apiKey = "sk-key"
    /\ DAEMON_URL = DefaultDaemonUrl
    /\ response \in Responses
    /\ pc = "decode" /\ exit = "running"
    /\ transcript = <<>> /\ session_id = ParentName(TranscriptPath)
    /\ learnings = JNull /\ selected = None
    /\ idx = 0 /\ stored = 0
    /\ imported = 0 /\ duplicates = 0 /\ errors = 0
    /\ net = <<>> /\ stdout = <<>> /\ stderr = <<>>

NextParse ==
    \/ extract_with_anthropic_decode
    \/ extract_with_ollama_decode

SpecParse == InitParse /\ [][NextParse]_vars

(* ---------------------------------------------------------------------- *)
(* Reading the request log                                                 *)
(* ---------------------------------------------------------------------- *)
AnthropicEp == "POST anthropic/v1/messages"
OllamaEps == {"GET ollama/api/tags", "POST ollama/api/generate"}

At(ep) == {k \in DOMAIN net : net[k].ep = ep}
AnthropicAt == At(AnthropicEp)
OllamaAt == {k \in DOMAIN net : net[k].ep \in OllamaEps}
HealthAt == At("GET /health")
StoreAt == At("POST /store")
StatsAt == At("GET /stats")

\* a provider request that ended without a decoded, non-null value
GaveNothing(e) == e.out.raise # "none" \/ e.out.body = JNull

\* no credential is configured: the variable is unset or empty
NoCredential == apiKey = None \/ apiKey = ""

AnthropicUnavailable ==
    NoCredential \/ \E k \in AnthropicAt : GaveNothing(net[k])

OllamaUnavailable ==
    \/ \E k \in At("GET ollama/api/tags") :
          net[k].out.raise # "none" \/ net[k].out.body = <<>>
    \/ \E k \in At("POST ollama/api/generate") : GaveNothing(net[k])

IsDiag(m, text) == "msg" \in DOMAIN m /\ m.msg = text
Wrote(stream, text) == \E k \in DOMAIN stream : IsDiag(stream[k], text)

(* ---------------------------------------------------------------------- *)
(* Claims                                                                  *)
(* ---------------------------------------------------------------------- *)

\* C1: Anthropic is tried first and the Ollama endpoints are contacted only
\* after Anthropic came back UNAVAILABLE; without a credential no request
\* goes to the remote chat endpoint; once Anthropic returned a result (the
\* empty list included) no request goes to the local inference endpoint.
C1_FallbackOrder ==
    prog = "extract" =>
      /\ NoCredential => AnthropicAt = {}
      /\ Cardinality(AnthropicAt) <= 1
      /\ \A j \in OllamaAt :
            /\ \A i \in AnthropicAt : i < j
            /\ NoCredential \/ \E i \in AnthropicAt : i < j /\ GaveNothing(net[i])
      /\ (\E i \in AnthropicAt : ~GaveNothing(net[i])) => OllamaAt = {}
      /\ pc \in {"ollama_tags", "ollama_generate"} => AnthropicUnavailable

\* C1 witness: a generation request to Ollama after Anthropic, holding a
\* credential, failed
C1_Witness ==
    /\ prog = "extract" /\ ~NoCredential
    /\ \E i \in AnthropicAt : \E j \in At("POST ollama/api/generate") :
          i < j /\ GaveNothing(net[i])

\* C2: when both providers are UNAVAILABLE the extractor writes its
\* diagnostic and exits non-zero, and the run has no /health probe, no /store
\* request and nothing on standard output.
C2_Exhaustion ==
    (prog = "extract" /\ AnthropicUnavailable /\ OllamaUnavailable) =>
      /\ HealthAt = {} /\ StoreAt = {}
      /\ stdout = <<>>
      /\ pc \in {"check", "exited"}
      /\ pc = "exited" =>
            /\ exit = "exit1"
            /\ IsDiag(stderr[Len(stderr)], "No LLM available for extraction")

\* C2 witness: no credential, no model installed, and the run has ended
C2_Witness ==
    /\ prog = "extract" /\ NoCredential /\ pc = "exited"
    /\ \E k \in At("GET ollama/api/tags") :
          net[k].out.raise = "none" /\ net[k].out.body = <<>>

(* ---- the extracted list and the submissions --------------------------- *)
ProviderAt == {k \in DOMAIN net : net[k].ep \in {AnthropicEp, "POST ollama/api/generate"}}

\* the value the providers decoded: the result of the last provider request
Extracted ==
    IF ProviderAt = {} THEN JNull
    ELSE LET k == CHOOSE m \in ProviderAt : \A j \in ProviderAt : j <= m
         IN IF GaveNothing(net[k]) THEN JNull ELSE net[k].out.body

ExtractedList == Extracted.kind = "array" /\ Len(Extracted.items) > 0

ProbeFailed(e) == e.out.raise # "none" \/ e.out.status_code # 200
ProbeOk(e) == e.out.raise = "none" /\ e.out.status_code = 200

AnsweredStored(e) ==
    /\ e.out.raise = "none"
    /\ "status" \in DOMAIN e.out.body
    /\ e.out.body.status = "stored"

\* a record as the claims read it: both fields present and non-empty
\* (JSON null counts as empty)
Eligible(v) ==
    /\ v.kind = "object"
    /\ "type" \in DOMAIN v.obj /\ v.obj["type"] \notin {"", None}
    /\ "content" \in DOMAIN v.obj /\ v.obj["content"] \notin {"", None}

\* a dict without its session_source entry
Strip(d) == [k \in DOMAIN d \ {"session_source"} |-> d[k]]
SameButSource(a, b) == a.kind = "object" /\ b.kind = "object" /\ Strip(a.obj) = Strip(b.obj)

\* the bodies of the /store requests, in the order they were issued
IsStoreRequest(e) == e.ep = "POST /store"
StoreRequests == SelectSeq(net, IsStoreRequest)

\* the eligible candidates among the first n of a list, in list order
EligiblePrefix(items, n) == SelectSeq(SubSeq(items, 1, n), Eligible)

\* C3 as stated: with a non-empty extracted list and a failed health probe
\* the list is printed once to standard output, the extractor exits
\* non-zero and no /store request is issued; every /store request follows a
\* health probe that returned 200.
C3_DegradedDumpOnce ==
    prog = "extract" =>
      /\ (ExtractedList /\ \E k \in HealthAt : ProbeFailed(net[k])) =>
            /\ stdout = <<Dump(Extracted)>>
            /\ pc = "exited" /\ exit \in {"exit1", "uncaught"}
            /\ StoreAt = {}
      /\ \A j \in StoreAt : \E k \in HealthAt : k < j /\ ProbeOk(net[k])

\* C4: the count store_learnings keeps, and the one the final report shows,
\* is the number of /store requests answered with status `stored`.
C4_StoredCount ==
    prog = "extract" =>
      LET answered == Cardinality({k \in StoreAt : AnsweredStored(net[k])})
      IN /\ stored = answered
         /\ \A k \in DOMAIN stderr :
               IsDiag(stderr[k], "Stored") => stderr[k].stored = answered

\* C4 witness: the final report after one `stored`, one `duplicate`
C4_Witness ==
    /\ prog = "extract" /\ Wrote(stderr, "Stored")
    /\ \E j \in StoreAt : AnsweredStored(net[j])
    /\ \E j \in StoreAt : net[j].out.raise = "none" /\ ~AnsweredStored(net[j])

\* C5: the /store requests issued so far are, in list order and once each,
\* the eligible learnings among those the loop has gone through, whatever
\* the earlier outcomes were; the loop stops only at the end of the list (or
\* at an element that is not an object), never because a submission failed.
C5_OneRequestEach ==
    (prog = "extract" /\ HealthAt # {}) =>
      LET extracted == Extracted
          requests == StoreRequests
      IN (extracted.kind = "array" /\ \E k \in HealthAt : ProbeOk(net[k])) =>
           LET due == EligiblePrefix(extracted.items, idx)
           IN /\ idx <= Len(extracted.items)
              /\ Len(requests) = Len(due)
              /\ \A k \in 1..Len(requests) : SameButSource(requests[k].json, due[k])
              /\ pc = "exited" =>
                    \/ idx = Len(extracted.items) /\ Wrote(stderr, "Stored")
                    \/ /\ idx < Len(extracted.items)
                       /\ extracted.items[idx + 1].kind # "object"

\* C5 witness: a submission raised, and a later learning was still submitted
C5_Witness ==
    /\ prog = "extract" /\ pc = "exited" /\ Wrote(stderr, "Stored")
    /\ \E i \in StoreAt : \E j \in StoreAt : i < j /\ net[i].out.raise # "none"

\* the per-learning messages store_learnings writes to the diagnostic stream
ItemDiagAt == {k \in DOMAIN stderr :
                 \/ IsDiag(stderr[k], "stored")
                 \/ IsDiag(stderr[k], "Duplicate")
                 \/ IsDiag(stderr[k], "Failed to store")}

\* C6: a candidate the loop has gone through was submitted if and only if
\* its type and its content are both present and non-empty; the others were
\* dropped without a message; what was submitted is the candidate as decoded
\* (but for session_source), a type outside the taxonomy and a confidence
\* outside [0,1] included.
C6_ValidatorFilter ==
    (prog = "extract" /\ HealthAt # {}) =>
      LET extracted == Extracted
          sent == StoreAt
      IN (extracted.kind = "array" /\ \E k \in HealthAt : ProbeOk(net[k])) =>
           /\ \A k \in 1..idx :
                 Eligible(extracted.items[k]) <=>
                   \E j \in sent : SameButSource(net[j].json, extracted.items[k])
           /\ \A j \in sent :
                 \E k \in 1..idx : SameButSource(net[j].json, extracted.items[k])
           /\ Cardinality(ItemDiagAt) <= Cardinality(sent)

\* C6 witness: a candidate with an off-taxonomy type and a confidence of 2.5
\* was submitted as it is, and another candidate was dropped
C6_Witness ==
    /\ prog = "extract" /\ idx = 2 /\ Cardinality(StoreAt) = 1
    /\ \E j \in StoreAt :
          /\ net[j].json.obj["type"] \notin Taxonomy
          /\ net[j].json.obj["confidence"] > 100

\* C7 as stated: on both entry points every record submitted to /store has a
\* present, non-empty type and a present, non-empty content.
C7_SubmittedAreEligible ==
    \A j \in StoreAt : Eligible(net[j].json)

\* a line of the importer's file the claims call malformed
Malformed(line) ==
    \/ line.kind = "invalid"
    \/ /\ line.kind = "json"
       /\ \/ line.value.kind # "object"
          \/ "type" \notin DOMAIN line.value.obj
          \/ "content" \notin DOMAIN line.value.obj
WellFormed(line) == line.kind = "json" /\ ~Malformed(line)

\* C8 as stated: every malformed line gone through is one line-level error
\* and no /store request, and the importer stops only at the end of the file.
C8_BadLineNeverAborts ==
    (prog = "import" /\ \E k \in HealthAt : ProbeOk(net[k])) =>
      /\ idx <= Len(fileText)
      /\ Len(StoreRequests) = Len(SelectSeq(SubSeq(fileText, 1, idx), WellFormed))
      /\ errors >= Len(SelectSeq(SubSeq(fileText, 1, idx), Malformed))
      /\ pc = "exited" => idx = Len(fileText)

\* the two messages that tell the operator to start the collaborator
IsInstruction(m) ==
    \/ IsDiag(m, "Cannot connect to memory daemon. Start it with")
    \/ IsDiag(m, "Memory daemon not healthy. Start it with")

\* C9 as stated: the probe comes before any submission, and a probe that
\* fails (non-200, or any transport failure, a timeout included) makes the
\* importer exit non-zero with the instruction to start the collaborator, with
\* no /store request, no /stats request and no line read.
C9_ProbeFirstOrAbort ==
    prog = "import" =>
      /\ \A j \in StoreAt \cup StatsAt : \E k \in HealthAt : k < j
      /\ (\E k \in HealthAt : ProbeFailed(net[k])) =>
            /\ pc = "exited" /\ exit \in {"exit1", "uncaught"}
            /\ \E k \in DOMAIN stdout : IsInstruction(stdout[k])
            /\ StoreAt = {} /\ StatsAt = {}
            /\ idx = 0

\* the requests that carry the prompt
PromptAt == {k \in DOMAIN net : "prompt" \in DOMAIN net[k]}

\* C10, character by character: a text of at most T characters is handed
\* over as it is; a longer one as its first T/2 characters, the marker, and
\* its last T/2 characters, T + |marker| characters in all.
TruncatedAsSpecified(in, out) ==
    LET T == max_chars
        h == T \div 2
        m == Len(Marker)
    IN IF Len(in) <= T
       THEN out = in
       ELSE /\ Len(out) = T + m
            /\ \A k \in 1..h : out[k] = in[k]
            /\ \A k \in 1..m : out[h + k] = Marker[k]
            /\ \A k \in 1..h : out[h + m + k] = in[Len(in) - h + k]

\* C10: the text main keeps, and the text every provider request carries, is
\* the transcript truncated as specified.
C10_Truncation ==
    /\ pc # "main" => TruncatedAsSpecified(fileText, transcript)
    /\ \A k \in PromptAt : TruncatedAsSpecified(fileText, net[k].prompt)

\* C10 witness: a transcript longer than the threshold, whose head and tail
\* differ, reached the local provider after the remote one
C10_Witness ==
    /\ Len(fileText) > max_chars + 1
    /\ fileText[1] # fileText[Len(fileText)]
    /\ \E k \in PromptAt : net[k].ep = "POST ollama/api/generate"
    /\ \E k \in PromptAt : net[k].ep = AnthropicEp

\* the name of the directory that holds the transcript named on the command line
TranscriptDirectory == IF argv[2] = "sessions/s1/transcript.md" THEN "s1" ELSE "s2"

\* C11: every /store request of the extractor carries session_source equal
\* to the name of the transcript's parent directory, also where the model put
\* a session_source of its own in the candidate; every other field is sent
\* as it was decoded.
C11_SessionSource ==
    (prog = "extract" /\ StoreAt # {}) =>
      LET extracted == Extracted
      IN \A j \in StoreAt :
           /\ net[j].json.kind = "object"
           /\ "session_source" \in DOMAIN net[j].json.obj
           /\ net[j].json.obj["session_source"] = TranscriptDirectory
           /\ \E k \in 1..Len(extracted.items) :
                 SameButSource(net[j].json, extracted.items[k])

\* C11 witness: a candidate that came with its own session_source was
\* submitted from the transcript of directory s2
C11_Witness ==
    /\ prog = "extract" /\ StoreAt # {}
    /\ argv[2] = "sessions/s2/transcript.md"
    /\ \E j \in StoreAt : \E k \in 1..Len(Extracted.items) :
          /\ Extracted.items[k].kind = "object"
          /\ "session_source" \in DOMAIN Extracted.items[k].obj
          /\ SameButSource(net[j].json, Extracted.items[k])

\* the provider requests that were answered with the empty list
EmptyListAt ==
    {k \in ProviderAt : net[k].out.raise = "none" /\ net[k].out.body = JArr(<<>>)}

\* C12: a provider that returns the empty list ends the extractor as a clean
\* success: when it was Anthropic no Ollama endpoint is asked, no /store and
\* no /health request is made, nothing is written to standard output, the
\* fatal diagnostic is not printed, and the run exits 0 after "No learnings
\* extracted".
C12_EmptyListIsSuccess ==
    (prog = "extract" /\ EmptyListAt # {}) =>
        /\ (EmptyListAt \cap AnthropicAt # {} => OllamaAt = {})
        /\ StoreAt = {} /\ HealthAt = {}
        /\ stdout = <<>>
        /\ ~Wrote(stderr, "No LLM available for extraction")
        /\ pc \in {"check", "exited"}
        /\ pc = "exited" =>
              exit = "exit0" /\ Wrote(stderr, "No learnings extracted")

\* C12 witness: Anthropic answered with the empty list and the run is over
C12_Witness ==
    /\ prog = "extract" /\ EmptyListAt \cap AnthropicAt # {}
    /\ pc = "exited" /\ exit = "exit0"

\* the final reports on standard error
ReportsAt == {k \in DOMAIN stderr : IsDiag(stderr[k], "Stored")}

\* C13 as stated: the final report `Stored X/Y` has X = the number of /store
\* requests answered with status `stored` and Y = the number of learnings
\* submitted, that is of those that passed validation.
C13_TotalIsSubmitted ==
    prog = "extract" =>
      \A k \in ReportsAt :
         /\ stderr[k].stored = Cardinality({j \in StoreAt : AnsweredStored(net[j])})
         /\ stderr[k].total = Cardinality(StoreAt)

\* C13 amended: X = the number of /store requests answered with status
\* `stored`, and Y = the length of the extracted list, the candidates the
\* validator dropped included; Y is the number submitted exactly when no
\* candidate was dropped.
C13_TotalIsExtracted ==
    (prog = "extract" /\ ReportsAt # {}) =>
      LET extracted == Extracted
          dropped == {i \in 1..Len(extracted.items) : ~Eligible(extracted.items[i])}
      IN \A k \in ReportsAt :
           /\ stderr[k].stored = Cardinality({j \in StoreAt : AnsweredStored(net[j])})
           /\ stderr[k].total = Len(extracted.items)
           /\ stderr[k].total = Cardinality(StoreAt) + Cardinality(dropped)

\* C13 witness: a report whose total is larger than the number submitted
C13_Witness ==
    /\ prog = "extract" /\ StoreAt # {}
    /\ \E k \in ReportsAt : stderr[k].total > Cardinality(StoreAt)

\* C14 as stated: once a provider has returned a decoded result and the
\* health probe answered 200, the extractor ends with the final report and
\* exit 0, whatever JSON value was decoded; no candidate's content aborts it.
C14_ReportAlwaysReached ==
    (prog = "extract" /\ pc = "exited" /\ \E k \in HealthAt : ProbeOk(net[k])) =>
        exit = "exit0" /\ ReportsAt # {}

\* C15 as stated: the extractor's standard output is empty or holds exactly
\* one JSON document, an array; it is non-empty only when the health probe
\* failed, and no human-readable message is written to it.
C15_StdoutIsFallbackOnly ==
    prog = "extract" =>
      /\ \/ stdout = <<>>
         \/ /\ Len(stdout) = 1
            /\ "json" \in DOMAIN stdout[1]
            /\ stdout[1].json.kind = "array"
      /\ stdout # <<>> => \E k \in HealthAt : ProbeFailed(net[k])
      /\ \A k \in DOMAIN stdout : "msg" \notin DOMAIN stdout[k]

\* the fixed preference list, in order
PreferenceList == <<"llama3", "mistral", "mixtral", "codellama", "deepseek-coder">>

\* the model the generation request has to name, for the installed models
\* `models` (a non-empty list of names, each split at its ":")
ExpectedModel(models) ==
    LET names == {models[k][1] : k \in 1..Len(models)}
        installed == {k \in 1..Len(PreferenceList) : PreferenceList[k] \in names}
    IN IF installed = {} THEN models[1][1]
       ELSE PreferenceList[CHOOSE k \in installed : \A j \in installed : k <= j]

TagsAt == At("GET ollama/api/tags")
GenerateAt == At("POST ollama/api/generate")

\* C19: the generation request names the earliest entry of the preference
\* list that is installed, or the first installed model when no preferred
\* one is installed; when no model is installed the provider returns
\* UNAVAILABLE without a generation request; a run issues at most one
\* model-listing request and at most one generation request.
C19_ModelSelection ==
    prog = "extract" =>
      /\ Cardinality(TagsAt) <= 1 /\ Cardinality(GenerateAt) <= 1
      /\ \A g \in GenerateAt :
            \E t \in TagsAt :
               /\ t < g /\ net[t].out.raise = "none" /\ net[t].out.body # <<>>
               /\ net[g].model = ExpectedModel(net[t].out.body)
      /\ \A t \in TagsAt :
            (net[t].out.raise = "none" /\ net[t].out.body = <<>>) =>
               /\ GenerateAt = {}
               /\ learnings = JNull
               /\ Wrote(stderr, "No Ollama models available")

\* C19 witness: mistral is listed before llama3 and llama3 is the model of
\* the generation request
C19_Witness ==
    /\ prog = "extract"
    /\ \E g \in GenerateAt : \E t \in TagsAt :
          /\ net[g].model = "llama3"
          /\ net[t].out.raise = "none"
          /\ \E i, j \in 1..Len(net[t].out.body) :
                i < j /\ net[t].out.body[i][1] = "mistral"
                      /\ net[t].out.body[j][1] = "llama3"

NonBlank(line) == line.kind # "blank"

\* C20 as stated: in the importer every non-blank line gone through
\* increments exactly one of imported, duplicates and errors, so the three
\* counters add up to the number of non-blank lines gone through, also when
\* the collaborator answers `duplicate` without a similarity.
C20_CountersPartitionLines ==
    prog = "import" =>
      imported + duplicates + errors =
          Len(SelectSeq(SubSeq(fileText, 1, idx), NonBlank))

\* the text is that of a JSON array
IsArrayText(t) == StartsWith(t, "[") /\ JsonLoads(t).raise = "none"

\* the response is the body inside a fenced block with no tag or the tag json
FencedAsJson(r) ==
    r.pre \in {<<Fence, Ws>>, <<Fence, "json", Ws>>, <<Ws, Fence, "json", Ws>>}

\* C16 as stated: an array text J inside a fenced block, with no tag or with
\* the tag json on the opening fence, is decoded by extract_with_anthropic
\* to the value the bare response J is decoded to.
C16_FenceStripping ==
    (pc = "anthropic_decoded" /\ FencedAsJson(response) /\ IsArrayText(response.body)) =>
        learnings = AnthropicDecode(response.body)

HasBracket(t) == \E k \in 1..Len(t) : t[k] \in {"[", "]"}
InProse(r) == r.pre \in Proses /\ r.post \in Proses

\* C17 as stated: an array text J with any prose before and after it is
\* decoded by extract_with_ollama to the value the bare response J is
\* decoded to.
C17_BracketScanAnyProse ==
    (pc = "ollama_decoded" /\ InProse(response) /\ IsArrayText(response.body)) =>
        learnings = OllamaDecode(response.body)

\* C17 amended: an array text J with prose before and after it that holds
\* neither `[` nor `]` is decoded by extract_with_ollama to the value the
\* bare response J is decoded to, the array J stands for.
C17_BracketScan ==
    (/\ pc = "ollama_decoded" /\ InProse(response) /\ IsArrayText(response.body)
     /\ ~HasBracket(response.pre) /\ ~HasBracket(response.post)) =>
        /\ learnings = OllamaDecode(response.body)
        /\ learnings = JsonLoads(response.body).body

\* C17 witness: prose on both sides of a non-empty array that was decoded
C17_Witness ==
    /\ pc = "ollama_decoded" /\ InProse(response)
    /\ response.pre # <<>> /\ response.post # <<>>
    /\ ~HasBracket(response.pre) /\ ~HasBracket(response.post)
    /\ IsArrayText(response.body)
    /\ learnings.kind = "array" /\ Len(learnings.items) = 2

\* C18 as stated: a provider function returns a list or UNAVAILABLE and no
\* other kind of value; in particular an Ollama response with no bracket in
\* it yields UNAVAILABLE.
C18_ListOrUnavailable ==
    (pc \in {"anthropic_decoded", "ollama_decoded"}) =>
        /\ learnings = JNull \/ learnings.kind = "array"
        /\ (pc = "ollama_decoded" /\ ~HasBracket(ResponseText(response))) =>
              learnings = JNull

====
